---- MODULE Spec2Model ----
(***************************************************************************)
(* Model of src/kw.py: the keyword -> case-insensitive character-class     *)
(* generator.  One run of the script is a small sequential state machine   *)
(* with one action per statement of main().                                *)
(*                                                                         *)
(* A Python str is modelled as a sequence of characters; a character is    *)
(* written as a TLA+ string naming it ("a", "!", "U+00DF", ...).  A        *)
(* one-character str such as the loop variable ch is a sequence of length  *)
(* one, exactly as in Python.  The list ret is a sequence of strs.         *)
(***************************************************************************)
EXTENDS Integers, Sequences, FiniteSets, TLC

VARIABLES
    argv,     \* sys.argv: <<script name>> followed by the command-line arguments
    errors,   \* error handler of sys.stdout, fixed by the locale of the process
    pc,       \* the statement of kw.py about to run ("L5".."L13"), or "exit"
    kw,       \* local kw of main
    ret,      \* local ret of main: a list of strs
    it,       \* position of the iterator of `for ch in kw`
    ch,       \* local ch of main: a str of length one
    stdout,   \* the texts written to standard output, one entry per print
    exc,      \* the uncaught exception that ended the run, or "none"
    status,   \* exit status of the process, -1 while it runs
    prev      \* the previous run of the script (used by SpecPair only)

vars == <<argv, errors, pc, kw, ret, it, ch, stdout, exc, status, prev>>

----------------------------------------------------------------------------
(* Bounds *)

\* longest keyword given on the command line in Spec
MaxLen == 2

\* longest keyword given on the command line in SpecPair
MaxLenPair == 2

----------------------------------------------------------------------------
(* Characters *)

\* U+00DF is LATIN SMALL LETTER SHARP S; U+DCFF is the lone surrogate that
\* Python's surrogateescape decoding of argv yields for the byte 0xFF;
\* U+0011 and U+0001 are control characters.
\* The characters a keyword may be made of:
InputChars == {"a", "A", "1", "!", "U+00DF", "U+DCFF"}

\* Characters UTF-8 cannot encode under the strict error handler.
Surrogates == {"U+DCFF"}

\* Python's lower-case mapping of one character (a str).
lower_char(c) ==
    CASE c = "A" -> <<"a">>
      [] c = "S" -> <<"s">>
      [] OTHER   -> <<c>>

\* Python's upper-case mapping of one character (a str: U+00DF gives "SS").
upper_char(c) ==
    CASE c = "a"      -> <<"A">>
      [] c = "s"      -> <<"S">>
      [] c = "U+00DF" -> <<"S", "S">>
      [] OTHER        -> <<c>>

\* A faulty lower(): swaps the case instead of lowering it.
RECURSIVE str_lower_swapcase(_)
str_lower_swapcase(s) ==
    IF s = <<>> THEN <<>>
    ELSE (CASE Head(s) = "A" -> <<"a">>
            [] Head(s) = "a" -> <<"A">>
            [] Head(s) = "S" -> <<"s">>
            [] Head(s) = "s" -> <<"S">>
            [] OTHER         -> <<Head(s)>>) \o str_lower_swapcase(Tail(s))

\* str.lower(): the lower-case mapping applied character by character.
RECURSIVE str_lower(_)
str_lower(s) ==
    IF s = <<>> THEN <<>> ELSE lower_char(Head(s)) \o str_lower(Tail(s))

\* A faulty upper(): the ASCII bit trick chr(ord(c) & ~0x20), applied to every
\* character whether or not it is a letter.
RECURSIVE str_upper_bittrick(_)
str_upper_bittrick(s) ==
    IF s = <<>> THEN <<>>
    ELSE (CASE Head(s) = "a" -> <<"A">>
            [] Head(s) = "s" -> <<"S">>
            [] Head(s) = "1" -> <<"U+0011">>
            [] Head(s) = "!" -> <<"U+0001">>
            [] OTHER         -> <<Head(s)>>) \o str_upper_bittrick(Tail(s))

\* str.upper(): the upper-case mapping applied character by character.
RECURSIVE str_upper(_)
str_upper(s) ==
    IF s = <<>> THEN <<>> ELSE upper_char(Head(s)) \o str_upper(Tail(s))

\* "".join(l): the strs of the list l concatenated.
RECURSIVE join(_)
join(l) == IF l = <<>> THEN <<>> ELSE Head(l) \o join(Tail(l))

\* Whether sys.stdout can encode the text s: under "strict" a lone surrogate
\* raises UnicodeEncodeError, under "surrogateescape" it is written as a byte.
Encodable(s) ==
    \/ errors = "surrogateescape"
    \/ \A i \in 1..Len(s) : s[i] \notin Surrogates

----------------------------------------------------------------------------
(* Inputs *)

\* All strs over InputChars of length at most n.
Strs(n) == UNION {[1..k -> InputChars] : k \in 0..n}

\* The argument vectors: the script alone, or the script and one keyword.
Argvs(n) == {<<<<"k", "w">>>>} \cup {<<<<"k", "w">>, s>> : s \in Strs(n)}

ErrorHandlers == {"strict", "surrogateescape"}

NoPrev == [valid |-> FALSE, kw |-> <<>>, status |-> -1, stdout |-> <<>>]

\* Process start: nothing of main has run.
Start(n) ==
    /\ argv \in Argvs(n)
    /\ errors \in ErrorHandlers
    /\ pc = "L5"
    /\ kw = <<>>
    /\ ret = <<>>
    /\ it = 0
    /\ ch = <<>>
    /\ stdout = <<>>
    /\ exc = "none"
    /\ status = -1

Init == Start(MaxLen) /\ prev = NoPrev

InitPair == Start(MaxLenPair) /\ prev = NoPrev

----------------------------------------------------------------------------
(* Statements of main() *)

\* A faulty line 5: a missing argument is read as the empty keyword.
sys_argv_1_default ==
    /\ pc = "L5"
    /\ kw' = IF Len(argv) >= 2 THEN argv[2] ELSE <<>>
    /\ pc' = "L6"
    /\ UNCHANGED <<argv, errors, ret, it, ch, stdout, exc, status, prev>>

\* line 5: kw = sys.argv[1]; IndexError when no argument was given, which
\* nothing catches: traceback on stderr, exit status 1.
sys_argv_1 ==
    /\ pc = "L5"
    /\ IF Len(argv) >= 2
       THEN /\ kw' = argv[2]
            /\ pc' = "L6"
            /\ UNCHANGED <<exc, status>>
       ELSE /\ exc' = "IndexError"
            /\ status' = 1
            /\ pc' = "exit"
            /\ UNCHANGED kw
    /\ UNCHANGED <<argv, errors, ret, it, ch, stdout, prev>>

\* line 6: ret = []
ret_init ==
    /\ pc = "L6"
    /\ ret' = <<>>
    /\ pc' = "L7"
    /\ UNCHANGED <<argv, errors, kw, it, ch, stdout, exc, status, prev>>

\* line 7: for ch in kw: the next character, or the end of the loop.
for_ch_in_kw ==
    /\ pc = "L7"
    /\ IF it < Len(kw)
       THEN /\ ch' = <<kw[it + 1]>>
            /\ it' = it + 1
            /\ pc' = "L8"
       ELSE /\ pc' = "L12"
            /\ UNCHANGED <<ch, it>>
    /\ UNCHANGED <<argv, errors, kw, ret, stdout, exc, status, prev>>

\* A faulty line 8: starts the list again instead of appending to it.
append_open_reset ==
    /\ pc = "L8"
    /\ ret' = <<<<"[">>>>
    /\ pc' = "L9"
    /\ UNCHANGED <<argv, errors, kw, it, ch, stdout, exc, status, prev>>

\* line 8: ret.append('[')
append_open ==
    /\ pc = "L8"
    /\ ret' = Append(ret, <<"[">>)
    /\ pc' = "L9"
    /\ UNCHANGED <<argv, errors, kw, it, ch, stdout, exc, status, prev>>

\* A faulty line 9: appends the character as given.
append_lower_raw ==
    /\ pc = "L9"
    /\ ret' = Append(ret, ch)
    /\ pc' = "L10"
    /\ UNCHANGED <<argv, errors, kw, it, ch, stdout, exc, status, prev>>

\* line 9: ret.append(ch.lower())
append_lower ==
    /\ pc = "L9"
    /\ ret' = Append(ret, str_lower(ch))
    /\ pc' = "L10"
    /\ UNCHANGED <<argv, errors, kw, it, ch, stdout, exc, status, prev>>

\* A faulty line 10: appends the lower-case form a second time.
append_upper_as_lower ==
    /\ pc = "L10"
    /\ ret' = Append(ret, str_lower(ch))
    /\ pc' = "L11"
    /\ UNCHANGED <<argv, errors, kw, it, ch, stdout, exc, status, prev>>

\* line 10: ret.append(ch.upper())
append_upper ==
    /\ pc = "L10"
    /\ ret' = Append(ret, str_upper(ch))
    /\ pc' = "L11"
    /\ UNCHANGED <<argv, errors, kw, it, ch, stdout, exc, status, prev>>

\* A faulty line 11: also prints the group just finished.
append_close_and_print ==
    /\ pc = "L11"
    /\ ret' = Append(ret, <<"]">>)
    /\ stdout' = Append(stdout, join(ret') \o <<"\n">>)
    /\ pc' = "L7"
    /\ UNCHANGED <<argv, errors, kw, it, ch, exc, status, prev>>

\* line 11: ret.append(']'), then back to the loop head.
append_close ==
    /\ pc = "L11"
    /\ ret' = Append(ret, <<"]">>)
    /\ pc' = "L7"
    /\ UNCHANGED <<argv, errors, kw, it, ch, stdout, exc, status, prev>>

\* A faulty line 12: prints nothing when there is nothing to print.
print_join_skip_empty ==
    /\ pc = "L12"
    /\ stdout' = IF ret = <<>> THEN stdout
                 ELSE Append(stdout, join(ret) \o <<"\n">>)
    /\ pc' = "L13"
    /\ UNCHANGED <<argv, errors, kw, ret, it, ch, exc, status, prev>>

\* line 12: print("".join(ret)).  The text and the newline are encoded for
\* sys.stdout; a text it cannot encode raises UnicodeEncodeError before
\* anything is written, which nothing catches: exit status 1.
print_join ==
    /\ pc = "L12"
    /\ IF Encodable(join(ret))
       THEN /\ stdout' = Append(stdout, join(ret) \o <<"\n">>)
            /\ pc' = "L13"
            /\ UNCHANGED <<exc, status>>
       ELSE /\ exc' = "UnicodeEncodeError"
            /\ status' = 1
            /\ pc' = "exit"
            /\ UNCHANGED stdout
    /\ UNCHANGED <<argv, errors, kw, ret, it, ch, prev>>

\* line 13: return; main() was the last statement of the script (line 17),
\* so the interpreter exits with status 0.
return_main ==
    /\ pc = "L13"
    /\ status' = 0
    /\ pc' = "exit"
    /\ UNCHANGED <<argv, errors, kw, ret, it, ch, stdout, exc, prev>>

Next ==
    \/ sys_argv_1
    \/ ret_init
    \/ for_ch_in_kw
    \/ append_open
    \/ append_lower
    \/ append_upper
    \/ append_close
    \/ print_join
    \/ return_main

Spec == Init /\ [][Next]_vars

\* lines 16-17, a second time: the script is run again after a run has ended;
\* what the ended run was given and what it produced is kept in prev.
invoke_again ==
    /\ pc = "exit"
    /\ ~prev.valid
    /\ prev' = [valid |-> TRUE, kw |-> kw, status |-> status, stdout |-> stdout]
    /\ argv' \in Argvs(MaxLenPair)
    /\ errors' \in ErrorHandlers
    /\ pc' = "L5"
    /\ kw' = <<>>
    /\ ret' = <<>>
    /\ it' = 0
    /\ ch' = <<>>
    /\ stdout' = <<>>
    /\ exc' = "none"
    /\ status' = -1

NextPair == Next \/ invoke_again

SpecPair == InitPair /\ [][NextPair]_vars

----------------------------------------------------------------------------
(* Properties *)

\* The bracket groups of the str s as one text: for each character c of s in
\* order, '[' then lower(c) then upper(c) then ']'.
RECURSIVE Pattern(_)
Pattern(s) ==
    IF s = <<>> THEN <<>>
    ELSE <<"[">> \o str_lower(<<Head(s)>>) \o str_upper(<<Head(s)>>) \o <<"]">>
         \o Pattern(Tail(s))

\* The same groups as the list of appended elements, four per character.
RECURSIVE GroupList(_)
GroupList(s) ==
    IF s = <<>> THEN <<>>
    ELSE <<<<"[">>, str_lower(<<Head(s)>>), str_upper(<<Head(s)>>), <<"]">>>>
         \o GroupList(Tail(s))

IsPrefix(a, b) == Len(a) <= Len(b) /\ SubSeq(b, 1, Len(a)) = a

\* a and b have the same length and differ at most in case at each position.
CaseEquivalent(a, b) ==
    /\ Len(a) = Len(b)
    /\ \A i \in 1..Len(a) :
          /\ str_lower(<<a[i]>>) = str_lower(<<b[i]>>)
          /\ str_upper(<<a[i]>>) = str_upper(<<b[i]>>)

Printed == pc \in {"L13", "exit"} /\ exc = "none"

\* The characters that have case (Unicode property Cased) among those that
\* occur; every other one is a digit, a punctuation mark or a surrogate.
Cased == {"a", "A", "s", "S", "U+00DF"}

\* C1: whenever main has printed, what it printed is the groups
\* '[' lower(s[i]) upper(s[i]) ']' of the keyword s, in input order, and a
\* newline; "aA" gives "[aA][aA]" and "A!" gives "[aA][!!]".
C1_PrintedIsPattern ==
    Printed =>
        /\ stdout = <<Pattern(kw) \o <<"\n">>>>
        /\ kw = <<"a", "A">> =>
              stdout[1] = <<"[", "a", "A", "]", "[", "a", "A", "]", "\n">>
        /\ kw = <<"A", "!">> =>
              stdout[1] = <<"[", "a", "A", "]", "[", "!", "!", "]", "\n">>

C1_Witness ==
    /\ status = 0
    /\ kw = <<"A", "!">>
    /\ stdout = <<<<"[", "a", "A", "]", "[", "!", "!", "]", "\n">>>>

\* C2: for every keyword of length n the output string has length 4n, every
\* character contributing exactly four characters (lower(c) and upper(c)
\* being one character each).
C2_LengthIs4n ==
    /\ Printed => Len(join(ret)) = 4 * Len(kw)
    /\ pc = "L11" => Len(ret[Len(ret) - 1]) = 1 /\ Len(ret[Len(ret)]) = 1

\* C3: without a keyword argument the run fails at the read of sys.argv[1]:
\* it never reaches the loop or the print, writes nothing to standard output
\* and ends with a non-zero exit status.
C3_MissingArgumentFails ==
    Len(argv) < 2 =>
        /\ pc \in {"L5", "exit"}
        /\ stdout = <<>>
        /\ ret = <<>> /\ it = 0
        /\ pc = "exit" => status # 0 /\ status # -1 /\ exc = "IndexError"

C3_Witness == Len(argv) = 1 /\ pc = "exit" /\ status = 1 /\ stdout = <<>>

\* C4: with a keyword argument, whatever its value, no error is reached: the
\* run ends after one iteration per character with the result printed and
\* exit status 0.
C4_NoErrorWithArgument ==
    Len(argv) >= 2 =>
        /\ exc = "none"
        /\ pc = "exit" => status = 0 /\ it = Len(kw) /\ Len(stdout) = 1

\* C5: for the empty keyword the loop body never runs, the transformed string
\* is empty, and the run still prints a single newline and exits with 0.
C5_EmptyKeyword ==
    (Len(argv) >= 2 /\ argv[2] = <<>>) =>
        /\ pc \notin {"L8", "L9", "L10", "L11"}
        /\ ret = <<>> /\ it = 0 /\ exc = "none"
        /\ pc \in {"L13", "exit"} => stdout = <<<<"\n">>>>
        /\ pc = "exit" => status = 0

C5_Witness ==
    /\ Len(argv) = 2 /\ argv[2] = <<>>
    /\ pc = "exit" /\ status = 0 /\ stdout = <<<<"\n">>>>

\* C6: a character c that has no case is its own lower-case and upper-case
\* form, so its group is '[' c c ']'; "1" gives "[11]" and "!" gives "[!!]".
C6_UncasedGroup ==
    /\ pc \in {"L7", "L12", "L13", "exit"} =>
          \A i \in 1..it :
              kw[i] \notin Cased =>
                 SubSeq(ret, 4 * i - 3, 4 * i)
                    = <<<<"[">>, <<kw[i]>>, <<kw[i]>>, <<"]">>>>
    /\ (Printed /\ kw = <<"1">>) => stdout = <<<<"[", "1", "1", "]", "\n">>>>
    /\ (Printed /\ kw = <<"!">>) => stdout = <<<<"[", "!", "!", "]", "\n">>>>

C6_Witness ==
    /\ pc = "L7" /\ it = 2 /\ kw = <<"a", "1">>
    /\ SubSeq(ret, 5, 8) = <<<<"[">>, <<"1">>, <<"1">>, <<"]">>>>

\* C7: the case mappings are idempotent: lowering the lower-case form the
\* loop has just appended, or raising the upper-case form it has just
\* appended, changes nothing.
C7_CaseMappingIdempotent ==
    /\ pc = "L10" => /\ ret[Len(ret)] = str_lower(ch)
                     /\ str_lower(ret[Len(ret)]) = ret[Len(ret)]
    /\ pc = "L11" => /\ ret[Len(ret)] = str_upper(ch)
                     /\ str_upper(ret[Len(ret)]) = ret[Len(ret)]

C7_Witness ==
    /\ pc = "L11" /\ ch = <<"U+00DF">>
    /\ ret[Len(ret)] = <<"S", "S">> /\ ret[Len(ret) - 1] = <<"U+00DF">>

\* C8: nothing is written to standard output before the loop has ended; a
\* successful run has made exactly one write, the whole transformed string
\* and one newline, after every character was processed, and exits with 0.
C8_SingleFinalWrite ==
    /\ pc \in {"L5", "L6", "L7", "L8", "L9", "L10", "L11", "L12"} => stdout = <<>>
    /\ Len(stdout) <= 1
    /\ Printed => /\ stdout = <<join(ret) \o <<"\n">>>>
                  /\ it = Len(kw)
                  /\ Len(ret) = 4 * Len(kw)
    /\ (pc = "exit" /\ exc = "none") => status = 0
    /\ status = 0 => Printed

C8_Witness ==
    /\ pc = "exit" /\ status = 0 /\ Len(kw) = 2
    /\ Len(stdout) = 1 /\ Len(ret) = 8

\* C9: the output is built append-only: every step leaves the elements
\* already appended and the keyword as they are, and each time the loop head
\* is reached after k characters the accumulator is exactly the groups of the
\* first k characters, 4k elements.
C9_AppendOnly ==
    [][ /\ IsPrefix(ret, ret')
        /\ pc # "L5" => kw' = kw
        /\ pc' = "L7" => /\ ret' = GroupList(SubSeq(kw', 1, it'))
                         /\ Len(ret') = 4 * it'
                         /\ it' <= Len(kw')
        /\ (pc = "L11" /\ pc' = "L7") =>
              ret' = SubSeq(ret', 1, 4 * it - 4)
                     \o <<<<"[">>, str_lower(ch), str_upper(ch), <<"]">>>>
      ]_vars

C9_Witness ==
    /\ pc = "L7" /\ it = 2 /\ Len(kw) = 2
    /\ Len(ret) = 8 /\ ret = GroupList(kw)

\* C10: two runs given keywords of equal length that differ only in case at
\* each position print the same string; "A" and "a" both give "[aA]".
C10_CaseInsensitive ==
    /\ (prev.valid /\ prev.status = 0 /\ Printed /\ CaseEquivalent(prev.kw, kw))
          => stdout = prev.stdout
    /\ (Printed /\ kw \in {<<"a">>, <<"A">>})
          => stdout = <<<<"[", "a", "A", "]", "\n">>>>

C10_Witness ==
    /\ prev.valid /\ prev.status = 0 /\ prev.kw = <<"a", "A">>
    /\ kw = <<"A", "a">> /\ status = 0
    /\ stdout = prev.stdout

====
